---- MODULE Spec2Model ----
(***************************************************************************)
(* A model of the keyed-mapping utilities of edgarimai/utils: merge,      *)
(* clone, get, set and isEqual (object.ts).                               *)
(*                                                                         *)
(* JavaScript values are modelled with reference identity: a primitive is *)
(* a tagged record, an object (plain object, array or Date) lives in a    *)
(* heap and is named by its address.  A property write is a write to the  *)
(* heap cell of the object written, so sharing and mutation are visible.  *)
(***************************************************************************)
EXTENDS Integers, Sequences, FiniteSets, TLC

\* ------------------------------------------------------------------------
\* Bounds of the model
\* ------------------------------------------------------------------------
\* numbers stored in the inputs are 1..MaxNum; Date instants are 1..MaxNum
MaxNum == 1
\* how many caller mutations follow a clone
MaxMut == 1
\* longest dotted text path, in characters
MaxPathLen == 3

\* ------------------------------------------------------------------------
\* Values
\* ------------------------------------------------------------------------
Undef == [t |-> "undefined", v |-> 0]
Null == [t |-> "null", v |-> 0]
NaN == [t |-> "nan", v |-> 0]
Num(n) == [t |-> "num", v |-> n]
\* a text value; every text value of the model is one character long
Str(i) == [t |-> "str", v |-> i]
Bool(b) == [t |-> "bool", v |-> b]
\* a reference to the heap object at address a
Ref(a) == [t |-> "ref", v |-> a]

\* the typeof operator
TypeOf(x) ==
  CASE x.t = "undefined" -> "undefined"
    [] x.t \in {"null", "ref"} -> "object"
    [] x.t \in {"num", "nan"} -> "number"
    [] x.t = "str" -> "string"
    [] x.t = "bool" -> "boolean"

\* the === operator: NaN is not equal to itself, objects compare by identity
StrictEq(x, y) == x.t # "nan" /\ x = y

\* Property names are character sequences, so that a dotted path can be
\* split into them.  UndefinedKey is the name the value undefined turns into
\* when it is used as a property name.
KeyA == <<"a">>
KeyB == <<"b">>
Key0 == <<"0">>
Key1 == <<"1">>
UndefinedKey == <<"undefined">>
IndexKeys == {Key0, Key1}

EmptyProps == [k \in {} |-> Undef]

\* heap objects: kind is "map" (plain object), "arr" (Array) or "date";
\* p holds the own enumerable properties, time the instant of a Date
NewObject == [kind |-> "map", time |-> 0, p |-> EmptyProps]
NewArray == [kind |-> "arr", time |-> 0, p |-> EmptyProps]
NewDate(ms) == [kind |-> "date", time |-> ms, p |-> EmptyProps]

IsArray(h, x) == x.t = "ref" /\ h[x.v].kind = "arr"
IsDate(h, x) == x.t = "ref" /\ h[x.v].kind = "date"

\* Object.keys(x) / the own keys a for-in loop visits
OwnKeys(h, x) == DOMAIN h[x.v].p

Put(f, k, x) == [j \in (DOMAIN f) \cup {k} |-> IF j = k THEN x ELSE f[j]]

\* x[k] for an object x
ReadProp(h, a, k) == IF k \in DOMAIN h[a].p THEN h[a].p[k] ELSE Undef

\* x[k] = y for an object x
WriteProp(h, a, k, y) == [h EXCEPT ![a].p = Put(@, k, y)]

\* delete x[k]
DeleteProp(h, a, k) == [h EXCEPT ![a].p = [j \in (DOMAIN @) \ {k} |-> @[j]]]

\* a fixed enumeration order of a set of keys
RECURSIVE KeySeq(_)
KeySeq(S) ==
  IF S = {} THEN <<>>
  ELSE LET k == CHOOSE x \in S : TRUE IN <<k>> \o KeySeq(S \ {k})

\* ------------------------------------------------------------------------
\* Structural view of a value: what a deep comparison sees, independent of
\* reference identity.  Defined for acyclic values.
\* ------------------------------------------------------------------------
RECURSIVE Snap(_, _)
Snap(h, x) ==
  IF x.t # "ref" THEN [t |-> x.t, v |-> x.v, p |-> EmptyProps]
  ELSE [t |-> h[x.v].kind, v |-> h[x.v].time,
        p |-> [k \in DOMAIN h[x.v].p |-> Snap(h, h[x.v].p[k])]]

\* the addresses of the objects reachable from x, x itself included
RECURSIVE Reach(_, _)
Reach(h, x) ==
  IF x.t # "ref" THEN {}
  ELSE {x.v} \cup UNION {Reach(h, h[x.v].p[k]) : k \in DOMAIN h[x.v].p}

\* ------------------------------------------------------------------------
\* clone (object.ts)
\* ------------------------------------------------------------------------
RECURSIVE clone(_, _)
RECURSIVE cloneInto(_, _, _, _)

\* the loop body `clonedObj[key] = clone(obj[key])`, over the keys ks
cloneInto(h, dst, src, ks) ==
  IF ks = <<>> THEN h
  ELSE LET r == clone(h, h[src].p[Head(ks)])
       IN cloneInto(WriteProp(r.h, dst, Head(ks), r.v), dst, src, Tail(ks))

\* a clone that copies only the top level and shares what is nested
cloneShallow(h, obj) ==
  IF obj.t # "ref" THEN [h |-> h, v |-> obj]
  ELSE [h |-> Append(h, h[obj.v]), v |-> Ref(Len(h) + 1)]

\* clone(obj): the resulting heap and the value returned
clone(h, obj) ==
  IF obj.t # "ref" THEN [h |-> h, v |-> obj]
  ELSE LET o == h[obj.v]
           a == Len(h) + 1
       IN CASE o.kind = "date" ->
                 [h |-> Append(h, NewDate(o.time)), v |-> Ref(a)]
            [] o.kind = "arr" ->
                 \* Array.prototype.map visits the index properties only
                 [h |-> cloneInto(Append(h, NewArray), a, obj.v,
                                  KeySeq(DOMAIN o.p \cap IndexKeys)),
                  v |-> Ref(a)]
            [] o.kind = "map" ->
                 [h |-> cloneInto(Append(h, NewObject), a, obj.v,
                                  KeySeq(DOMAIN o.p)),
                  v |-> Ref(a)]

\* ------------------------------------------------------------------------
\* isEqual (object.ts)
\* ------------------------------------------------------------------------
\* a comparison without the test of the two key counts: every key of obj1
\* is looked up in obj2, the keys obj2 has beyond them are never seen
RECURSIVE isEqualOneWay(_, _, _)
isEqualOneWay(h, obj1, obj2) ==
  IF StrictEq(obj1, obj2) THEN TRUE
  ELSE IF TypeOf(obj1) # "object" \/ TypeOf(obj2) # "object"
          \/ obj1 = Null \/ obj2 = Null THEN FALSE
  ELSE IF IsArray(h, obj1) # IsArray(h, obj2) THEN FALSE
  ELSE \A key \in OwnKeys(h, obj1) :
         /\ key \in OwnKeys(h, obj2)
         /\ isEqualOneWay(h, h[obj1.v].p[key], h[obj2.v].p[key])

RECURSIVE isEqual(_, _, _)
isEqual(h, obj1, obj2) ==
  IF StrictEq(obj1, obj2) THEN TRUE
  ELSE IF TypeOf(obj1) # "object" \/ TypeOf(obj2) # "object"
          \/ obj1 = Null \/ obj2 = Null THEN FALSE
  ELSE IF IsArray(h, obj1) # IsArray(h, obj2) THEN FALSE
  ELSE LET keys1 == OwnKeys(h, obj1)
           keys2 == OwnKeys(h, obj2)
       IN IF Cardinality(keys1) # Cardinality(keys2) THEN FALSE
          ELSE \A key \in keys1 :
                 /\ key \in keys2
                 /\ isEqual(h, h[obj1.v].p[key], h[obj2.v].p[key])

\* ------------------------------------------------------------------------
\* Paths.  A path argument is a text (form "text", its characters in chars),
\* an array of segment names (form "array", in segs) or something else.
\* ------------------------------------------------------------------------
TextPath(cs) == [form |-> "text", chars |-> cs, segs |-> <<>>]
ArrayPath(ss) == [form |-> "array", chars |-> <<>>, segs |-> ss]
OtherPath == [form |-> "other", chars |-> <<>>, segs |-> <<>>]

\* String.prototype.split('.'): cur is the segment being read, out the
\* segments already closed
RECURSIVE splitFrom(_, _, _)
splitFrom(cs, cur, out) ==
  IF cs = <<>> THEN Append(out, cur)
  ELSE IF Head(cs) = "." THEN splitFrom(Tail(cs), <<>>, Append(out, cur))
  ELSE splitFrom(Tail(cs), Append(cur, Head(cs)), out)

split(cs) == splitFrom(cs, <<>>, <<>>)

\* keys that take a text path as one segment, dots and all
pathKeysWhole(pth) == IF pth.form = "array" THEN pth.segs ELSE <<pth.chars>>

\* `Array.isArray(path) ? path : path.split('.')`
pathKeys(pth) == IF pth.form = "array" THEN pth.segs ELSE split(pth.chars)

\* the two guards get and set start with
objIsInvalid(obj) == TypeOf(obj) # "object" \/ obj = Null
pathIsInvalid(pth) == pth.form \notin {"text", "array"}

\* What a call throws: a TypeError of the function fn with the message
\* `fn: what`, a TypeError of the language itself, or nothing.
NoError == [fn |-> "", what |-> ""]
TypeError(fn, what) == [fn |-> fn, what |-> what]
NullAccess == [fn |-> "", what |-> "property access on null"]

\* guards that look at the path before they look at obj
guardErrorPathFirst(fn, obj, pth) ==
  IF pathIsInvalid(pth) THEN TypeError(fn, "path must be a string or array")
  ELSE IF objIsInvalid(obj) THEN TypeError(fn, "obj must be an object")
  ELSE NoError

\* the error of the two guards of fn (get or set)
guardError(fn, obj, pth) ==
  IF objIsInvalid(obj) THEN TypeError(fn, "obj must be an object")
  ELSE IF pathIsInvalid(pth) THEN TypeError(fn, "path must be a string or array")
  ELSE NoError

\* ------------------------------------------------------------------------
\* get (object.ts)
\* ------------------------------------------------------------------------
\* result[key], for a result that is neither null nor undefined
Member(h, x, key) ==
  CASE x.t = "ref" -> ReadProp(h, x.v, key)
    [] x.t = "str" -> IF key = Key0 THEN x ELSE Undef
    [] OTHER -> Undef

RECURSIVE getWalk(_, _, _, _)
getWalk(h, result, keys, defaultValue) ==
  IF keys = <<>>
  THEN (IF result = Undef THEN defaultValue ELSE result)
  ELSE IF result = Null \/ result = Undef THEN defaultValue
  ELSE getWalk(h, Member(h, result, Head(keys)), Tail(keys), defaultValue)

\* a get that gives the default for a null it finds at the end of the path
getNullAsDefault(h, obj, pth, defaultValue) ==
  IF objIsInvalid(obj) \/ pathIsInvalid(pth)
  THEN [v |-> Undef, threw |-> TRUE, error |-> guardError("get", obj, pth)]
  ELSE LET v == getWalk(h, obj, pathKeys(pth), defaultValue)
       IN [v |-> IF v = Null THEN defaultValue ELSE v, threw |-> FALSE,
           error |-> NoError]

\* a walk without the test for null and undefined: reading a property of
\* either throws
RECURSIVE getWalkUnguarded(_, _, _)
getWalkUnguarded(h, result, keys) ==
  IF keys = <<>> THEN [v |-> result, threw |-> FALSE]
  ELSE IF result = Null \/ result = Undef THEN [v |-> Undef, threw |-> TRUE]
  ELSE getWalkUnguarded(h, Member(h, result, Head(keys)), Tail(keys))

getUnguarded(h, obj, pth, defaultValue) ==
  IF objIsInvalid(obj) \/ pathIsInvalid(pth)
  THEN [v |-> Undef, threw |-> TRUE, error |-> guardError("get", obj, pth)]
  ELSE LET w == getWalkUnguarded(h, obj, pathKeys(pth))
       IN [v |-> IF w.threw THEN Undef
                 ELSE IF w.v = Undef THEN defaultValue ELSE w.v,
           threw |-> w.threw,
           error |-> IF w.threw THEN NullAccess ELSE NoError]

\* get(obj, path, defaultValue): the value returned, or that it threw
get(h, obj, pth, defaultValue) ==
  IF objIsInvalid(obj) \/ pathIsInvalid(pth)
  THEN [v |-> Undef, threw |-> TRUE, error |-> guardError("get", obj, pth)]
  ELSE [v |-> getWalk(h, obj, pathKeys(pth), defaultValue), threw |-> FALSE,
        error |-> NoError]

\* ------------------------------------------------------------------------
\* set (object.ts)
\* ------------------------------------------------------------------------
\* the loop over all keys but the last, then the assignment at the last
\* key; current is the value the walk stands on
RECURSIVE setWalk(_, _, _, _)
setWalk(h, current, keys, value) ==
  IF current = Null
  THEN \* `key in null` and `null[key] = value` throw a TypeError
       [h |-> h, threw |-> TRUE]
  ELSE IF Len(keys) <= 1
  THEN [h |-> WriteProp(h, current.v,
                        IF keys = <<>> THEN UndefinedKey ELSE keys[1], value),
        threw |-> FALSE]
  ELSE LET key == Head(keys)
           here == ReadProp(h, current.v, key)
       IN IF key \notin DOMAIN h[current.v].p \/ TypeOf(here) # "object"
          THEN setWalk(WriteProp(Append(h, NewObject), current.v, key,
                                 Ref(Len(h) + 1)),
                       Ref(Len(h) + 1), Tail(keys), value)
          ELSE setWalk(h, here, Tail(keys), value)

\* a set that walks the object it was given, not a clone of it
setInPlace(h, obj, pth, value) ==
  IF objIsInvalid(obj) \/ pathIsInvalid(pth)
  THEN [h |-> h, v |-> Undef, threw |-> TRUE,
        error |-> guardError("set", obj, pth)]
  ELSE LET w == setWalk(h, obj, pathKeys(pth), value)
       IN [h |-> w.h, v |-> IF w.threw THEN Undef ELSE obj,
           threw |-> w.threw,
           error |-> IF w.threw THEN NullAccess ELSE NoError]

\* set(obj, path, value): the resulting heap, the value returned, or that it
\* threw
set(h, obj, pth, value) ==
  IF objIsInvalid(obj) \/ pathIsInvalid(pth)
  THEN [h |-> h, v |-> Undef, threw |-> TRUE,
        error |-> guardError("set", obj, pth)]
  ELSE LET c == clone(h, obj)
           w == setWalk(c.h, c.v, pathKeys(pth), value)
       IN [h |-> w.h, v |-> IF w.threw THEN Undef ELSE c.v,
           threw |-> w.threw,
           error |-> IF w.threw THEN NullAccess ELSE NoError]

\* ------------------------------------------------------------------------
\* merge (object.ts)
\* ------------------------------------------------------------------------
\* a test that leaves out `!Array.isArray(...)`
isMergeableOrArray(h, x) == x.t = "ref"

\* a test that never asks for the recursive merge
isNeverMergeable(h, x) == FALSE

\* `x && typeof x === 'object' && !Array.isArray(x)`
isMergeable(h, x) == x.t = "ref" /\ h[x.v].kind # "arr"

RECURSIVE merge(_, _, _)
RECURSIVE mergeKeys(_, _, _, _)
RECURSIVE mergeSources(_, _, _)

\* the body of `for (const key in source)`, over the keys ks: result and
\* source are addresses
mergeKeys(h, result, source, ks) ==
  IF ks = <<>> THEN h
  ELSE LET key == Head(ks)
           sourceValue == h[source].p[key]
           targetValue == ReadProp(h, result, key)
       IN IF isMergeable(h, sourceValue) /\ isMergeable(h, targetValue)
          THEN LET r == merge(h, targetValue, <<sourceValue>>)
               IN mergeKeys(WriteProp(r.h, result, key, r.v),
                            result, source, Tail(ks))
          ELSE mergeKeys(WriteProp(h, result, key, sourceValue),
                         result, source, Tail(ks))

\* a loop over the sources that stops after the first one
mergeFirstSource(h, result, sources) ==
  IF sources = <<>> THEN h
  ELSE mergeKeys(h, result, Head(sources).v,
                 KeySeq(OwnKeys(h, Head(sources))))

\* a loop over the sources that applies them right to left
RECURSIVE mergeSourcesReversed(_, _, _)
mergeSourcesReversed(h, result, sources) ==
  IF sources = <<>> THEN h
  ELSE LET last == sources[Len(sources)]
       IN mergeSourcesReversed(
            mergeKeys(h, result, last.v, KeySeq(OwnKeys(h, last))),
            result, SubSeq(sources, 1, Len(sources) - 1))

\* `for (const source of sources)`
mergeSources(h, result, sources) ==
  IF sources = <<>> THEN h
  ELSE mergeSources(mergeKeys(h, result, Head(sources).v,
                              KeySeq(OwnKeys(h, Head(sources)))),
                    result, Tail(sources))

mergeIsInvalid(target, sources) ==
  \/ TypeOf(target) # "object" \/ target = Null
  \/ \E i \in 1..Len(sources) :
       TypeOf(sources[i]) # "object" \/ sources[i] = Null

\* the error of the two guards of merge: target first, then the sources
mergeError(target, sources) ==
  IF TypeOf(target) # "object" \/ target = Null
  THEN TypeError("merge", "target must be an object")
  ELSE IF \E i \in 1..Len(sources) :
            TypeOf(sources[i]) # "object" \/ sources[i] = Null
  THEN TypeError("merge", "all sources must be objects")
  ELSE NoError

\* a merge that writes into target, not into a copy of it
mergeInPlace(h, target, sources) ==
  IF mergeIsInvalid(target, sources)
  THEN [h |-> h, v |-> Undef, threw |-> TRUE,
        error |-> mergeError(target, sources)]
  ELSE [h |-> mergeSources(h, target.v, sources), v |-> target,
        threw |-> FALSE, error |-> NoError]

\* a merge that starts from an empty object, not from a copy of target
mergeFromEmpty(h, target, sources) ==
  IF mergeIsInvalid(target, sources)
  THEN [h |-> h, v |-> Undef, threw |-> TRUE,
        error |-> mergeError(target, sources)]
  ELSE [h |-> mergeSources(Append(h, NewObject), Len(h) + 1, sources),
        v |-> Ref(Len(h) + 1), threw |-> FALSE, error |-> NoError]

\* merge(target, ...sources): the resulting heap, the value returned, or
\* that it threw
merge(h, target, sources) ==
  IF mergeIsInvalid(target, sources)
  THEN [h |-> h, v |-> Undef, threw |-> TRUE,
        error |-> mergeError(target, sources)]
  ELSE LET result == Len(h) + 1
           \* `{ ...target }`: a plain object with target's own properties
           copy == [kind |-> "map", time |-> 0, p |-> h[target.v].p]
       IN [h |-> mergeSources(Append(h, copy), result, sources),
           v |-> Ref(result), threw |-> FALSE, error |-> NoError]

\* ------------------------------------------------------------------------
\* Input values.  An input is described as a tree and built into the heap,
\* every mapping, sequence and date of it as an object of its own.
\* ------------------------------------------------------------------------
LeafT(x) == [t |-> x.t, v |-> x.v, p |-> EmptyProps]
MapT(f) == [t |-> "map", v |-> 0, p |-> f]
ArrT(f) == [t |-> "arr", v |-> 0, p |-> f]
DateT(ms) == [t |-> "date", v |-> ms, p |-> EmptyProps]

RECURSIVE Build(_, _)
RECURSIVE BuildInto(_, _, _, _)

BuildInto(h, dst, tree, ks) ==
  IF ks = <<>> THEN h
  ELSE LET r == Build(h, tree.p[Head(ks)])
       IN BuildInto(WriteProp(r.h, dst, Head(ks), r.v), dst, tree, Tail(ks))

\* the heap h extended with the value the tree describes, and that value
Build(h, tree) ==
  IF tree.t \notin {"map", "arr", "date"}
  THEN [h |-> h, v |-> [t |-> tree.t, v |-> tree.v]]
  ELSE LET a == Len(h) + 1
           o == [kind |-> tree.t, time |-> tree.v, p |-> EmptyProps]
       IN [h |-> BuildInto(Append(h, o), a, tree, KeySeq(DOMAIN tree.p)),
           v |-> Ref(a)]

\* all property tables with keys among K and values among V
PropsOver(K, V) == UNION {[S -> V] : S \in SUBSET K}

\* the arrays [], [x] and [x, y] with elements among V
ArraysOver(V) ==
  {ArrT(EmptyProps)} \cup {ArrT(Key0 :> x) : x \in V}
    \cup {ArrT(Key0 :> x @@ Key1 :> y) : x \in V, y \in V}

Numbers == {Num(n) : n \in 1..MaxNum}
Primitives == {Undef, Null, NaN, Str(1), Bool(1)} \cup Numbers

\* the leaves stored inside the composite inputs
Leaves == {LeafT(x) : x \in {Null, NaN} \cup Numbers}
Dates == {DateT(ms) : ms \in 1..MaxNum}

\* mappings, sequences and dates whose parts are leaves
Flat == {MapT(f) : f \in PropsOver({KeyA, KeyB}, Leaves)}
          \cup ArraysOver(Leaves) \cup Dates

\* mappings and sequences with one nested mapping, sequence or date
Nested ==
  {MapT(f) : f \in {KeyA :> x : x \in Flat}
                     \cup {KeyA :> x @@ KeyB :> y : x \in Flat, y \in Leaves}}
    \cup {ArrT(Key0 :> x) : x \in Flat}

\* ------------------------------------------------------------------------
\* State
\* ------------------------------------------------------------------------
VARIABLES
  heap,   \* the objects that exist, by address
  pre,    \* the heap when the operation was called
  post,   \* the heap when the operation returned
  op,     \* "init" before the call, then the name of the operation called
  args,   \* the arguments of the call (values)
  path,   \* the path argument of get and set
  ret,    \* the value returned
  threw,  \* the call ended in a TypeError
  error,  \* the TypeError it ended in (NoError when it returned)
  side,   \* after clone: which value the caller mutates ("none" at first)
  nmut,   \* how many mutations the caller has made
  calls,  \* the calls made on shared inputs so far: who called which function
  stack   \* the calls that have begun and not returned, the innermost last

vars ==
  <<heap, pre, post, op, args, path, ret, threw, error, side, nmut, calls, stack>>

NoPath == [form |-> "none", chars |-> <<>>, segs |-> <<>>]

\* the state before a call whose arguments are described by the trees ts
RECURSIVE BuildAll(_, _, _)
BuildAll(h, ts, acc) ==
  IF ts = <<>> THEN [h |-> h, vs |-> acc]
  ELSE LET r == Build(h, Head(ts))
       IN BuildAll(r.h, Tail(ts), Append(acc, r.v))

InitWith(ts, pth) ==
  LET b == BuildAll(<<>>, ts, <<>>)
  IN /\ heap = b.h
     /\ pre = b.h
     /\ post = b.h
     /\ op = "init"
     /\ args = b.vs
     /\ path = pth
     /\ ret = Undef
     /\ threw = FALSE
     /\ error = NoError
     /\ side = "none"
     /\ nmut = 0
     /\ calls = <<>>
     /\ stack = <<>>

\* ------------------------------------------------------------------------
\* Specification of clone and its callers
\* ------------------------------------------------------------------------
CloneInputs == {LeafT(x) : x \in Primitives} \cup Flat \cup Nested

InitClone == \E tree \in CloneInputs : InitWith(<<tree>>, NoPath)

\* const cloned = clone(obj)
CallClone ==
  /\ op = "init"
  /\ LET r == clone(heap, args[1])
     IN /\ heap' = r.h
        /\ post' = r.h
        /\ ret' = r.v
  /\ op' = "clone"
  /\ UNCHANGED <<pre, args, path, threw, error, side, nmut, calls, stack>>

\* the value the caller mutates: the clone or what was cloned
Mutable(s) == IF s = "clone" THEN ret ELSE args[1]

\* The caller mutates a nested part of one of the two values: it assigns a
\* property, deletes one, or sets the instant of a date.
MutateAssign(s, a, k, x) ==
  /\ op = "clone" /\ nmut < MaxMut
  /\ side \in {"none", s}
  /\ a \in Reach(heap, Mutable(s))
  /\ heap' = WriteProp(heap, a, k, x)
  /\ side' = s /\ nmut' = nmut + 1
  /\ UNCHANGED <<pre, post, op, args, path, ret, threw, error, calls, stack>>

MutateDelete(s, a, k) ==
  /\ op = "clone" /\ nmut < MaxMut
  /\ side \in {"none", s}
  /\ a \in Reach(heap, Mutable(s))
  /\ k \in DOMAIN heap[a].p
  /\ heap' = DeleteProp(heap, a, k)
  /\ side' = s /\ nmut' = nmut + 1
  /\ UNCHANGED <<pre, post, op, args, path, ret, threw, error, calls, stack>>

MutateSetTime(s, a, ms) ==
  /\ op = "clone" /\ nmut < MaxMut
  /\ side \in {"none", s}
  /\ a \in Reach(heap, Mutable(s))
  /\ heap[a].kind = "date" /\ heap[a].time # ms
  /\ heap' = [heap EXCEPT ![a].time = ms]
  /\ side' = s /\ nmut' = nmut + 1
  /\ UNCHANGED <<pre, post, op, args, path, ret, threw, error, calls, stack>>

Addrs == 1..Len(heap)
\* the value a mutation stores: a number that occurs in no input
Marker == Num(MaxNum + 1)

NextClone ==
  \/ CallClone
  \/ \E s \in {"clone", "orig"}, a \in Addrs, k \in {KeyA, KeyB, Key0} :
       MutateAssign(s, a, k, Marker)
  \/ \E s \in {"clone", "orig"}, a \in Addrs, k \in {KeyA, KeyB, Key0} :
       MutateDelete(s, a, k)
  \/ \E s \in {"clone", "orig"}, a \in Addrs :
       MutateSetTime(s, a, MaxNum + 1)

SpecClone == InitClone /\ [][NextClone]_vars

\* C3: for every acyclic value v, isEqual(clone(v), v) is true, and clone(v)
\* has the same keys as v at every mapping and the same length and order at
\* every sequence (it has the same structure).
C3_CloneIsEqual ==
  (op = "clone" /\ side = "none") =>
    /\ isEqual(heap, ret, args[1])
    /\ Snap(heap, ret) = Snap(heap, args[1])

PathLeaves == {LeafT(x) : x \in {Null, Str(1)} \cup Numbers}
PathFlat ==
  {MapT(f) : f \in PropsOver({KeyA, KeyB}, {LeafT(Null)} \cup {LeafT(x) : x \in Numbers})}
    \cup {ArrT(EmptyProps)} \cup {ArrT(Key0 :> LeafT(x)) : x \in Numbers}
    \cup Dates
PathObjects ==
  {MapT(EmptyProps)}
    \cup {MapT(KeyA :> x) : x \in PathLeaves \cup PathFlat}
    \cup {MapT(KeyA :> x @@ KeyB :> LeafT(Num(1))) : x \in PathLeaves \cup PathFlat}
    \cup {ArrT(Key0 :> x) : x \in PathFlat}
    \cup Dates
    \cup {MapT(KeyA :> LeafT(Undef))}
    \cup {LeafT(Null), LeafT(Undef), LeafT(Num(1))}

\* the values set is given: primitives and a mapping
PathValues ==
  {LeafT(Undef), LeafT(Null), LeafT(NaN), LeafT(Num(1)),
   MapT(KeyA :> LeafT(Num(1)))}

\* texts over a, b and the dot, of at most n characters
RECURSIVE Texts(_)
Texts(n) ==
  IF n = 0 THEN {<<>>}
  ELSE Texts(n - 1)
         \cup {Append(cs, c) : cs \in {x \in Texts(n - 1) : Len(x) = n - 1},
                               c \in {"a", "b", "."}}

\* segment names: a, b, 0 and a name with a dot in it
DottedKey == <<"a", ".", "b">>
Segments == {KeyA, KeyB, Key0, DottedKey}
SegmentPaths ==
  {<<>>} \cup {<<x>> : x \in Segments}
    \cup {<<x, y>> : x \in Segments, y \in Segments}
    \cup {<<x, y, z>> : x \in {KeyA}, y \in {KeyA, KeyB}, z \in {KeyA, KeyB}}

Paths ==
  {TextPath(cs) : cs \in Texts(MaxPathLen)}
    \cup {ArrayPath(ss) : ss \in SegmentPaths} \cup {OtherPath}

InitPath ==
  \E obj \in PathObjects, value \in PathValues, pth \in Paths :
    InitWith(<<obj, value>>, pth)

\* const result = set(obj, path, value)
CallSet ==
  /\ op = "init"
  /\ LET r == set(heap, args[1], path, args[2])
     IN /\ heap' = r.h
        /\ post' = r.h
        /\ ret' = r.v
        /\ threw' = r.threw
        /\ error' = r.error
  /\ op' = "set"
  /\ UNCHANGED <<pre, args, path, side, nmut, calls, stack>>

\* get(result, path) on what set returned
CallGetOfSet ==
  /\ op = "set" /\ ~threw
  /\ LET r == get(heap, ret, path, Undef)
     IN /\ ret' = r.v
        /\ threw' = r.threw
        /\ error' = r.error
  /\ args' = Append(args, ret)
  /\ op' = "get-of-set"
  /\ UNCHANGED <<heap, pre, post, path, side, nmut, calls, stack>>

\* get(obj, path, defaultValue)
CallGet(defaultValue) ==
  /\ op = "init"
  /\ LET r == get(heap, args[1], path, defaultValue)
     IN /\ ret' = r.v
        /\ threw' = r.threw
        /\ error' = r.error
  /\ args' = <<args[1], args[2], defaultValue>>
  /\ op' = "get"
  /\ UNCHANGED <<heap, pre, post, path, side, nmut, calls, stack>>

NextPath ==
  \/ CallSet
  \/ CallGetOfSet
  \/ \E d \in {Undef, Str(2)} : CallGet(d)

SpecPath == InitPath /\ [][NextPath]_vars

C2_GetOfSet ==
  /\ (op = "set" /\ ~objIsInvalid(args[1]) /\ ~pathIsInvalid(path)) => ~threw
  /\ op = "get-of-set" => (~threw /\ ret = args[2])

\* ------------------------------------------------------------------------
\* Specification of merge and its callers
\* ------------------------------------------------------------------------
MergeLeaves == {LeafT(Null)} \cup {LeafT(x) : x \in Numbers}
MergeFlat ==
  {MapT(f) : f \in PropsOver({KeyA, KeyB}, MergeLeaves)}
    \cup {ArrT(EmptyProps)} \cup {ArrT(Key0 :> x) : x \in MergeLeaves}
    \cup Dates
MergeDeep ==
  {MapT(KeyA :> MapT(KeyA :> MapT(f))) :
     f \in {KeyA :> LeafT(Num(1)), KeyB :> LeafT(Null)}}

\* the mappings merge is given
MergeInputs ==
  {MapT(EmptyProps), MapT(KeyB :> LeafT(Num(1)))}
    \cup {MapT(KeyA :> x) : x \in MergeLeaves \cup MergeFlat}
    \cup {MapT(KeyA :> x @@ KeyB :> LeafT(Num(1))) : x \in MergeLeaves \cup MergeFlat}
    \cup MergeDeep

\* the second source
MergeLast ==
  {MapT(EmptyProps), MapT(KeyB :> LeafT(Null))}
    \cup {MapT(KeyA :> x) :
            x \in MergeLeaves \cup MergeDeep
                    \cup {MapT(KeyB :> LeafT(Null)), MapT(KeyA :> LeafT(Null)),
                          ArrT(Key0 :> LeafT(Null)), DateT(1)}}

MergeCalls ==
  {<<x>> : x \in MergeInputs}
    \cup {<<x, y>> : x \in MergeInputs, y \in MergeInputs}
    \cup {<<x, y, z>> : x \in MergeInputs, y \in MergeInputs, z \in MergeLast}

InitMerge == \E ts \in MergeCalls : InitWith(ts, NoPath)

\* const result = merge(target, ...sources)
CallMerge ==
  /\ op = "init"
  /\ LET r == merge(heap, Head(args), Tail(args))
     IN /\ heap' = r.h
        /\ post' = r.h
        /\ ret' = r.v
        /\ threw' = r.threw
        /\ error' = r.error
  /\ op' = "merge"
  /\ UNCHANGED <<pre, args, path, side, nmut, calls, stack>>

\* merge(...merge(merge(target, s1), s2)...): one source at a time
RECURSIVE mergeLeft(_, _, _)
mergeLeft(h, target, sources) ==
  IF sources = <<>>
  THEN [h |-> h, v |-> target, threw |-> FALSE, error |-> NoError]
  ELSE LET r == merge(h, target, <<Head(sources)>>)
       IN IF r.threw THEN r ELSE mergeLeft(r.h, r.v, Tail(sources))

\* const result = merge(merge(a, b), c)
CallMergeLeft ==
  /\ op = "init" /\ Len(args) = 3
  /\ LET r == mergeLeft(heap, Head(args), Tail(args))
     IN /\ heap' = r.h
        /\ post' = r.h
        /\ ret' = r.v
        /\ threw' = r.threw
        /\ error' = r.error
  /\ op' = "merge-left"
  /\ UNCHANGED <<pre, args, path, side, nmut, calls, stack>>

\* const result = merge(target, target): one object in both places
CallMergeSelf ==
  /\ op = "init" /\ Len(args) = 1
  /\ LET r == merge(heap, args[1], <<args[1]>>)
     IN /\ heap' = r.h
        /\ post' = r.h
        /\ ret' = r.v
        /\ threw' = r.threw
        /\ error' = r.error
  /\ args' = <<args[1], args[1]>>
  /\ op' = "merge"
  /\ UNCHANGED <<pre, path, side, nmut, calls, stack>>

NextMerge == CallMerge \/ CallMergeLeft \/ CallMergeSelf

SpecMerge == InitMerge /\ [][NextMerge]_vars

\* the arguments of the merge call: target first, then the sources
IsMerged == op \in {"merge", "merge-left"} /\ ~threw
IsMap(h, x) == x.t = "ref" /\ h[x.v].kind = "map"
AllKeys(h, vs) == UNION {OwnKeys(h, vs[i]) : i \in 1..Len(vs)}

\* the values the mappings vs hold under k, in the order of vs
RECURSIVE Held(_, _, _)
Held(h, vs, k) ==
  IF vs = <<>> THEN <<>>
  ELSE (IF k \in OwnKeys(h, Head(vs)) THEN <<h[Head(vs).v].p[k]>> ELSE <<>>)
         \o Held(h, Tail(vs), k)

\* C5: merge never mutates its inputs: when merge(target, ...sources)
\* returns, target and every source are as they were before the call, at
\* every depth.
C5_MergeKeepsInputs ==
  IsMerged =>
    /\ \A a \in 1..Len(pre) : heap[a] = pre[a]
    /\ \A i \in 1..Len(args) : Snap(heap, args[i]) = Snap(pre, args[i])

\* a nested mapping of the second source was merged into a value that came
\* from the first source
C5_Witness ==
  /\ op = "merge" /\ ~threw /\ Len(args) = 3
  /\ KeyA \notin OwnKeys(pre, args[1])
  /\ KeyA \in OwnKeys(pre, args[2]) /\ KeyA \in OwnKeys(pre, args[3])
  /\ IsMap(pre, pre[args[2].v].p[KeyA])
  /\ IsMap(pre, pre[args[3].v].p[KeyA])
  /\ Snap(heap, ReadProp(heap, ret.v, KeyA)) # Snap(pre, pre[args[2].v].p[KeyA])

\* C6: when the accumulator's value or the source's value at a key is a
\* sequence, the merged value at that key is the source's value itself:
\* sequences are not concatenated and not merged element by element.
C6_MergeReplacesSequences ==
  (op = "merge" /\ ~threw /\ Len(args) >= 2) =>
    LET source == args[Len(args)]
        before == merge(pre, args[1], SubSeq(args, 2, Len(args) - 1))
    IN \A key \in OwnKeys(pre, source) :
         LET sourceValue == pre[source.v].p[key]
             accValue == ReadProp(before.h, before.v.v, key)
         IN (IsArray(before.h, accValue) \/ IsArray(pre, sourceValue)) =>
              /\ ReadProp(heap, ret.v, key) = sourceValue
              /\ Snap(heap, sourceValue) = Snap(pre, sourceValue)

\* a sequence of the source replaced another sequence of the accumulator
C6_Witness ==
  /\ op = "merge" /\ ~threw /\ Len(args) = 2
  /\ KeyA \in OwnKeys(pre, args[1]) /\ KeyA \in OwnKeys(pre, args[2])
  /\ IsArray(pre, pre[args[1].v].p[KeyA])
  /\ IsArray(pre, pre[args[2].v].p[KeyA])
  /\ Snap(pre, pre[args[1].v].p[KeyA]) # Snap(pre, pre[args[2].v].p[KeyA])
  /\ ReadProp(heap, ret.v, KeyA) = pre[args[2].v].p[KeyA]

\* result is the deep union of the mappings vs: its keys are the keys of all
\* of them; where all the values under a key are mappings, the value of the
\* result is their deep union; where the last one is a leaf, it is that leaf
RECURSIVE DeepUnion(_, _, _, _)
DeepUnion(hr, result, hi, vs) ==
  /\ IsMap(hr, result)
  /\ OwnKeys(hr, result) = AllKeys(hi, vs)
  /\ \A k \in OwnKeys(hr, result) :
       LET held == Held(hi, vs, k)
       IN IF \A i \in 1..Len(held) : IsMap(hi, held[i])
          THEN DeepUnion(hr, hr[result.v].p[k], hi, held)
          ELSE held[Len(held)].t # "ref" => hr[result.v].p[k] = held[Len(held)]

\* C7: where the accumulator's value and the source's value at a key are
\* both mappings, the merged value is the recursive merge of the two: at
\* every level the keys of the result are the union of the keys of target
\* and of all sources at that level, and on a conflicting leaf the value of
\* the latest source is in the result.
C7_MergeDeepUnion ==
  (op = "merge" /\ ~threw) => DeepUnion(heap, ret, pre, args)

\* two nested mappings with different keys were merged
C7_Witness ==
  /\ op = "merge" /\ ~threw /\ Len(args) = 3
  /\ \A i \in 1..3 : KeyA \in OwnKeys(pre, args[i])
                       /\ IsMap(pre, pre[args[i].v].p[KeyA])
  /\ OwnKeys(pre, pre[args[1].v].p[KeyA]) = {KeyA}
  /\ OwnKeys(pre, pre[args[2].v].p[KeyA]) = {KeyB}
  /\ OwnKeys(heap, ReadProp(heap, ret.v, KeyA)) = {KeyA, KeyB}

ScalarOrSequence(h, x) == x.t # "ref" \/ IsArray(h, x)

\* C8: sources are applied left to right: for a key whose values are scalars
\* or sequences, the result holds the value of the last source that has the
\* key, and the value of target only when no source has the key.
C8_MergePrecedence ==
  (op = "merge" /\ ~threw) =>
    \A k \in AllKeys(pre, args) :
      LET held == Held(pre, args, k)
          inSources == Held(pre, Tail(args), k)
      IN /\ (\A i \in 1..Len(held) : ScalarOrSequence(pre, held[i])) =>
               ReadProp(heap, ret.v, k) = held[Len(held)]
         /\ inSources = <<>> =>
               ReadProp(heap, ret.v, k) = pre[args[1].v].p[k]

\* target and both sources hold a scalar under "a", not all the same
C8_Witness ==
  /\ op = "merge" /\ ~threw /\ Len(args) = 3
  /\ \A i \in 1..3 : KeyA \in OwnKeys(pre, args[i])
                       /\ pre[args[i].v].p[KeyA].t # "ref"
  /\ pre[args[2].v].p[KeyA] # pre[args[3].v].p[KeyA]
  /\ pre[args[1].v].p[KeyA] # pre[args[3].v].p[KeyA]
  /\ ReadProp(heap, ret.v, KeyA) = pre[args[3].v].p[KeyA]

\* C9: merge(x) with no sources returns a value deep-equal to x.
C9_MergeIdentity ==
  (op = "merge" /\ Len(args) = 1) =>
    /\ ~threw
    /\ Snap(heap, ret) = Snap(pre, args[1])

\* merge was called with a nested mapping and no sources
C9_Witness ==
  /\ op = "merge" /\ ~threw /\ Len(args) = 1
  /\ Cardinality(Reach(pre, args[1])) >= 3

\* C10: merge(merge(a, b), c) is deep-equal to merge(a, b, c).
C10_MergeAssociative ==
  op = "merge-left" =>
    LET r == merge(pre, args[1], Tail(args))
    IN /\ threw = r.threw
       /\ Snap(heap, ret) = Snap(r.h, r.v)

\* both sources changed what was merged before them
C10_Witness ==
  /\ op = "merge-left" /\ ~threw
  /\ LET ab == merge(pre, args[1], <<args[2]>>)
     IN /\ Snap(ab.h, ab.v) # Snap(pre, args[1])
        /\ Snap(heap, ret) # Snap(ab.h, ab.v)
        /\ Cardinality(Reach(heap, ret)) >= 2

\* ------------------------------------------------------------------------
\* Specification of the guards of merge
\* ------------------------------------------------------------------------
\* what merge may be handed: primitives, null, mappings, sequences, dates
GuardInputs ==
  {LeafT(x) : x \in {Null, Undef, Num(1), Str(1), Bool(1)}}
    \cup {MapT(EmptyProps), MapT(KeyA :> LeafT(Num(1))),
          MapT(KeyA :> MapT(KeyB :> LeafT(Null)))}
    \cup {ArrT(EmptyProps), ArrT(Key0 :> LeafT(Num(1)))}
    \cup Dates

GuardCalls ==
  {<<x>> : x \in GuardInputs}
    \cup {<<x, y>> : x \in GuardInputs, y \in GuardInputs}
    \cup {<<x, y, z>> : x \in GuardInputs, y \in GuardInputs, z \in GuardInputs}

InitMergeGuard == \E ts \in GuardCalls : InitWith(ts, NoPath)

NextMergeGuard == CallMerge

SpecMergeGuard == InitMergeGuard /\ [][NextMergeGuard]_vars

\* x is not a keyed-mapping: it is null, a primitive or a sequence
NotAMapping(h, x) == x.t # "ref" \/ IsArray(h, x)

\* C11: merge fails with a TypeError, before any merging, whenever target or
\* a source is not a keyed-mapping (null, a primitive or a sequence); target
\* is checked before the sources.
C11_MergeValidation ==
  (op = "merge" /\ \E i \in 1..Len(args) : NotAMapping(pre, args[i])) =>
    /\ threw
    /\ heap = pre
    /\ error = IF NotAMapping(pre, args[1])
               THEN TypeError("merge", "target must be an object")
               ELSE TypeError("merge", "all sources must be objects")
\* ------------------------------------------------------------------------
\* Properties of set and get along a path (SpecPath)
\* ------------------------------------------------------------------------
\* x?.[keys[1]]?.[keys[2]]...: the value the keys lead to from x, undefined
\* as soon as they pass through null or undefined
RECURSIVE Resolve(_, _, _)
Resolve(h, x, keys) ==
  IF keys = <<>> THEN x
  ELSE IF x = Null \/ x = Undef THEN Undef
  ELSE Resolve(h, Member(h, x, Head(keys)), Tail(keys))

ValidCall == ~objIsInvalid(args[1]) /\ ~pathIsInvalid(path)

\* C12: set walks every segment but the last on the clone; where the value at
\* a segment is absent or is no keyed-mapping (a scalar, null, a sequence or a
\* date) it puts a fresh empty keyed-mapping there before it descends, and it
\* assigns the value at the last segment.  So when set was called with an
\* object and a path of at least one segment it returns, every proper prefix
\* of the path leads to a mapping in the result, a prefix that led to no
\* mapping in obj leads to a new mapping that holds the next segment only, and
\* the whole path leads to the value.
C12_SetMaterializes ==
  (op = "set" /\ ValidCall /\ pathKeys(path) # <<>>) =>
    LET keys == pathKeys(path)
    IN /\ ~threw
       /\ \A i \in 1..(Len(keys) - 1) :
            LET now == Resolve(heap, ret, SubSeq(keys, 1, i))
                was == Resolve(pre, args[1], SubSeq(keys, 1, i))
            IN /\ IsMap(heap, now)
               /\ ~IsMap(pre, was) =>
                    /\ now.v \notin 1..Len(pre)
                    /\ OwnKeys(heap, now) = {keys[i + 1]}
       /\ Resolve(heap, ret, keys) = args[2]
\* the keys lead through null or undefined before the segment i + 1, for
\* some i below n
StopsBefore(h, x, keys, n) ==
  \E i \in 0..(n - 1) : Resolve(h, x, SubSeq(keys, 1, i)) \in {Null, Undef}

\* C13: when get has walked all segments it returns the default only if the
\* value the path leads to is undefined or absent; a null stored at the last
\* segment is returned as null, whatever the default.
C13_GetDefaultDistinction ==
  (op = "get" /\ ValidCall
     /\ ~StopsBefore(heap, args[1], pathKeys(path), Len(pathKeys(path)))) =>
    LET resolved == Resolve(heap, args[1], pathKeys(path))
    IN /\ ~threw
       /\ ret = IF resolved = Undef THEN args[3] ELSE resolved

\* get was given a default and found null at the last segment
C13_Witness ==
  /\ op = "get" /\ ValidCall /\ ~threw
  /\ pathKeys(path) # <<>>
  /\ ~StopsBefore(heap, args[1], pathKeys(path), Len(pathKeys(path)))
  /\ Resolve(heap, args[1], pathKeys(path)) = Null
  /\ args[3] = Str(2)
  /\ ret = Null

\* C14: get never throws once obj and path have passed the guards, and when
\* the value reached before some segment is null or undefined it returns the
\* default (undefined when none was given).
C14_GetShortCircuit ==
  (op = "get" /\ ValidCall) =>
    /\ ~threw /\ error = NoError
    /\ StopsBefore(heap, args[1], pathKeys(path), Len(pathKeys(path))) =>
         ret = args[3]

\* get met a null with segments left to walk and returned the default
C14_Witness ==
  /\ op = "get" /\ ValidCall /\ ~threw
  /\ \E i \in 1..(Len(pathKeys(path)) - 1) :
       /\ ~StopsBefore(heap, args[1], pathKeys(path), i)
       /\ Resolve(heap, args[1], SubSeq(pathKeys(path), 1, i)) = Null
  /\ args[3] = Str(2)
  /\ ret = Str(2)

\* C15: get and set throw the TypeError `<fn>: obj must be an object` when obj
\* is null or no object, and `<fn>: path must be a string or array` when obj
\* is an object and the path is neither; obj is looked at first, and nothing
\* was cloned or written when the error is thrown.
C15_GetSetValidation ==
  op \in {"get", "set"} =>
    /\ objIsInvalid(args[1]) =>
         /\ threw /\ error = TypeError(op, "obj must be an object")
         /\ heap = pre
    /\ (~objIsInvalid(args[1]) /\ pathIsInvalid(path)) =>
         /\ threw /\ error = TypeError(op, "path must be a string or array")
         /\ heap = pre

\* set was given null for obj and a number for the path
C15_Witness ==
  /\ op = "set" /\ args[1] = Null /\ path = OtherPath
  /\ threw /\ error = TypeError("set", "obj must be an object")
  /\ heap = pre
\* ------------------------------------------------------------------------
\* Specification of isEqual and its callers
\* ------------------------------------------------------------------------
\* the leaves inside the values compared: undefined, null, NaN, a text and
\* numbers, one of them a number no other input holds
EqualLeaves == Leaves \cup {LeafT(Undef), LeafT(Str(1)), LeafT(Marker)}
EqualDates == Dates \cup {DateT(MaxNum + 1)}

\* mappings, sequences and dates of leaves, and sequences that carry a named
\* property besides their elements
EqualFlat ==
  {MapT(f) : f \in PropsOver({KeyA, KeyB}, EqualLeaves)}
    \cup ArraysOver(EqualLeaves) \cup EqualDates
    \cup {ArrT(Key0 :> LeafT(Num(1)) @@ KeyA :> LeafT(x)) : x \in {Num(1), Marker}}

EqualNested ==
  {MapT(KeyA :> x) : x \in EqualFlat} \cup {ArrT(Key0 :> x) : x \in EqualFlat}

EqualInputs ==
  {LeafT(x) : x \in Primitives \cup {Marker}} \cup EqualFlat \cup EqualNested

InitEqual == \E x \in EqualInputs, y \in EqualInputs : InitWith(<<x, y>>, NoPath)

Truth(b) == Bool(IF b THEN 1 ELSE 0)

\* isEqual(obj1, obj2)
CallIsEqual ==
  /\ op = "init"
  /\ ret' = Truth(isEqual(heap, args[1], args[2]))
  /\ op' = "isEqual"
  /\ UNCHANGED <<heap, pre, post, args, path, threw, error, side, nmut, calls, stack>>

\* isEqual(obj, obj): one value in both places
CallIsEqualSelf(i) ==
  /\ op = "init"
  /\ ret' = Truth(isEqual(heap, args[i], args[i]))
  /\ args' = <<args[i], args[i]>>
  /\ op' = "isEqual"
  /\ UNCHANGED <<heap, pre, post, path, threw, error, side, nmut, calls, stack>>

NextEqual == CallIsEqual \/ \E i \in {1, 2} : CallIsEqualSelf(i)

SpecEqual == InitEqual /\ [][NextEqual]_vars

\* C16: isEqual(x, x) is true for every value x: every primitive, null, and
\* every mapping, sequence or date, the same reference passed twice included.
C16_EqualReflexive ==
  (op = "isEqual" /\ args[1] = args[2]) => ret = Truth(TRUE)

\* C17: for all acyclic values a and b, isEqual(a, b) and isEqual(b, a) return
\* the same boolean.
C17_EqualSymmetric ==
  op = "isEqual" => ret = Truth(isEqual(heap, args[2], args[1]))

\* isEqual compared two mappings of which one has the keys of the other and
\* one more
C17_Witness ==
  /\ op = "isEqual"
  /\ IsMap(heap, args[1]) /\ IsMap(heap, args[2])
  /\ OwnKeys(heap, args[1]) \subseteq OwnKeys(heap, args[2])
  /\ OwnKeys(heap, args[1]) # OwnKeys(heap, args[2])
  /\ \A k \in OwnKeys(heap, args[1]) :
       isEqual(heap, heap[args[1].v].p[k], heap[args[2].v].p[k])
  /\ ret = Truth(FALSE)
\* the runtime classification of a value
Classify(h, x) ==
  CASE x = Null -> "null"
    [] x.t = "bool" -> "boolean"
    [] x.t \in {"num", "nan"} -> "number"
    [] x.t = "str" -> "text"
    [] IsArray(h, x) -> "ordered-sequence"
    [] IsDate(h, x) -> "calendar-date"
    [] IsMap(h, x) -> "keyed-mapping"
    [] OTHER -> "other"

\* C18: isEqual(a, b) is false whenever a and b are classified differently
\* among null, boolean, number, text, ordered-sequence, keyed-mapping and
\* calendar-date: a mapping never equals a sequence, null equals only null,
\* and a date never equals a mapping.
C18_EqualTypeMismatch ==
  (op = "isEqual"
     /\ Classify(heap, args[1]) # "other" /\ Classify(heap, args[2]) # "other"
     /\ Classify(heap, args[1]) # Classify(heap, args[2])) =>
    ret = Truth(FALSE)

\* the number of elements of a sequence
Length(h, x) == Cardinality(OwnKeys(h, x) \cap IndexKeys)

\* C19: two keyed-mappings are isEqual iff they have the same set of keys and
\* the values under each key are pairwise isEqual; two ordered sequences are
\* isEqual iff they have the same length and their elements are pairwise
\* isEqual in order.
C19_EqualByParts ==
  op = "isEqual" =>
    LET a == args[1]
        b == args[2]
    IN /\ (IsMap(heap, a) /\ IsMap(heap, b)) =>
            (ret = Truth(TRUE)) =
              (/\ OwnKeys(heap, a) = OwnKeys(heap, b)
               /\ \A k \in OwnKeys(heap, a) :
                    isEqual(heap, heap[a.v].p[k], heap[b.v].p[k]))
       /\ (IsArray(heap, a) /\ IsArray(heap, b)) =>
            (ret = Truth(TRUE)) =
              (/\ Length(heap, a) = Length(heap, b)
               /\ \A k \in OwnKeys(heap, a) \cap IndexKeys :
                    isEqual(heap, heap[a.v].p[k], heap[b.v].p[k]))
\* ------------------------------------------------------------------------
\* Specification of several callers working on shared inputs.  The five
\* functions are synchronous: a call runs from its first statement to its
\* return before any other code of the program runs, so a call is one step
\* and an interleaving is an order of calls.
\* ------------------------------------------------------------------------
\* how many calls the callers make in all
MaxCalls == 2

Callers == {"A", "B"}

\* the two shared values: null, a number, mappings (one of them nested), a
\* sequence and a date
SharedInputs ==
  {LeafT(Null), LeafT(Num(1)), MapT(EmptyProps),
   MapT(KeyA :> LeafT(Num(1))),
   MapT(KeyA :> MapT(KeyB :> LeafT(Num(1))) @@ KeyB :> LeafT(Marker)),
   MapT(KeyA :> MapT(KeyA :> LeafT(Marker))),
   ArrT(Key0 :> LeafT(Num(1)))}
    \cup Dates

SharedPaths ==
  {TextPath(<<"a">>), TextPath(<<"a", ".", "b">>), ArrayPath(<<KeyB>>),
   OtherPath}

InitShared ==
  \E x \in SharedInputs, y \in SharedInputs, pth \in SharedPaths :
    InitWith(<<x, y>>, pth)

\* one call of fn on the shared values x and y and the shared path, in the
\* heap h: the heap it leaves, what it returns, whether and what it threw
Run(h, fn, x, y, pth) ==
  CASE fn = "isEqual" ->
         [h |-> h, v |-> Truth(isEqual(h, x, y)), threw |-> FALSE,
          error |-> NoError]
    [] fn = "clone" ->
         LET r == clone(h, x)
         IN [h |-> r.h, v |-> r.v, threw |-> FALSE, error |-> NoError]
    [] fn = "merge" -> merge(h, x, <<y>>)
    [] fn = "get" ->
         LET r == get(h, x, pth, y)
         IN [h |-> h, v |-> r.v, threw |-> r.threw, error |-> r.error]
    [] fn = "set" -> set(h, x, pth, y)

\* the caller c calls fn
Invoke(c, fn) ==
  /\ Len(calls) < MaxCalls
  /\ LET r == Run(heap, fn, args[1], args[2], path)
     IN /\ heap' = r.h
        /\ post' = r.h
        /\ ret' = r.v
        /\ threw' = r.threw
        /\ error' = r.error
  /\ op' = fn
  /\ calls' = Append(calls, [who |-> c, fn |-> fn])
  /\ UNCHANGED <<pre, args, path, side, nmut, stack>>

SharedIsEqual(c) == Invoke(c, "isEqual")
SharedClone(c) == Invoke(c, "clone")
SharedMerge(c) == Invoke(c, "merge")
SharedGet(c) == Invoke(c, "get")
SharedSet(c) == Invoke(c, "set")

NextShared ==
  \E c \in Callers :
    \/ SharedIsEqual(c)
    \/ SharedClone(c)
    \/ SharedMerge(c)
    \/ SharedGet(c)
    \/ SharedSet(c)

SpecShared == InitShared /\ [][NextShared]_vars

MaxLen == 3

\* a text argument (its characters in items) and an argument that is none
Text(cs) == [kind |-> "string", items |-> cs]
NotText == [kind |-> "number", items |-> <<>>]

\* what a relative index of slice stands for in a sequence of n items
sliceIndex(i, n) ==
  IF i < 0 THEN (IF n + i < 0 THEN 0 ELSE n + i)
  ELSE IF i > n THEN n ELSE i

\* String.prototype.slice(start, end) and Array.prototype.slice(start, end)
slice(s, start, end) ==
  LET from == sliceIndex(start, Len(s))
      to == sliceIndex(end, Len(s))
  IN IF from < to THEN SubSeq(s, from + 1, to) ELSE <<>>

\* ------------------------------------------------------------------------
\* truncate (string.ts)
\* ------------------------------------------------------------------------
\* truncate(str, length, suffix): the text returned, or what it threw
truncate(str, length, suffix) ==
  IF str.kind # "string"
  THEN [v |-> <<>>, threw |-> TRUE,
        error |-> TypeError("truncate", "str must be a string")]
  ELSE IF length < 0
  THEN [v |-> <<>>, threw |-> TRUE,
        error |-> TypeError("truncate", "length must be a non-negative integer")]
  ELSE IF suffix.kind # "string"
  THEN [v |-> <<>>, threw |-> TRUE,
        error |-> TypeError("truncate", "suffix must be a string")]
  ELSE IF str.items = <<>> \/ Len(str.items) <= length
  THEN [v |-> str.items, threw |-> FALSE, error |-> NoError]
  ELSE [v |-> slice(str.items, 0, length - Len(suffix.items)) \o suffix.items,
        threw |-> FALSE, error |-> NoError]

\* the state before a call whose arguments are as: no object exists yet
InitPlain(as) ==
  /\ heap = <<>> /\ pre = <<>> /\ post = <<>>
  /\ op = "init"
  /\ args = as
  /\ path = NoPath
  /\ ret = <<>>
  /\ threw = FALSE
  /\ error = NoError
  /\ side = "none"
  /\ nmut = 0
  /\ calls = <<>>
  /\ stack = <<>>

\* texts over a and b of at most n characters
RECURSIVE Words(_)
Words(n) ==
  IF n = 0 THEN {<<>>}
  ELSE Words(n - 1)
         \cup {Append(cs, c) : cs \in {x \in Words(n - 1) : Len(x) = n - 1},
                               c \in {"a", "b"}}

\* the suffixes: none, one character, and the three dots of the default
Suffixes == {<<>>, <<"~">>, <<".", ".", ".">>}

InitTruncate ==
  \E str \in {Text(cs) : cs \in Words(MaxLen)} \cup {NotText},
     length \in (-1)..(MaxLen + 1),
     suffix \in {Text(cs) : cs \in Suffixes} \cup {NotText} :
    InitPlain(<<str, length, suffix>>)

\* truncate(str, length, suffix)
CallTruncate ==
  /\ op = "init"
  /\ LET r == truncate(args[1], args[2], args[3])
     IN /\ ret' = r.v
        /\ threw' = r.threw
        /\ error' = r.error
  /\ op' = "truncate"
  /\ UNCHANGED <<heap, pre, post, args, path, side, nmut, calls, stack>>

\* truncate(str, length): the suffix left out
CallTruncateDefault ==
  /\ op = "init"
  /\ LET r == truncate(args[1], args[2], Text(<<".", ".", ".">>))
     IN /\ ret' = r.v
        /\ threw' = r.threw
        /\ error' = r.error
  /\ args' = <<args[1], args[2], Text(<<".", ".", ".">>)>>
  /\ op' = "truncate"
  /\ UNCHANGED <<heap, pre, post, path, side, nmut, calls, stack>>

NextTruncate == CallTruncate \/ CallTruncateDefault

SpecTruncate == InitTruncate /\ [][NextTruncate]_vars

\* s ends with t
EndsWith(s, t) ==
  Len(t) <= Len(s) /\ SubSeq(s, Len(s) - Len(t) + 1, Len(s)) = t

\* C21: for every text str, non-negative integer length and text suffix,
\* truncate(str, length, suffix) returns str unchanged when str has at most
\* length characters, and otherwise a text of exactly length characters that
\* ends with the suffix; the result is never longer than length characters.
C21_TruncateRespectsLength ==
  (op = "truncate" /\ args[1].kind = "string" /\ args[2] >= 0
     /\ args[3].kind = "string") =>
    /\ ~threw
    /\ IF Len(args[1].items) <= args[2]
       THEN ret = args[1].items
       ELSE Len(ret) = args[2] /\ EndsWith(ret, args[3].items)
    /\ Len(ret) <= args[2]

\* ------------------------------------------------------------------------
\* takeLast (array.ts)
\* ------------------------------------------------------------------------
\* the property names of the elements of a sequence: "0", "1", ...
Digits == <<"0", "1", "2", "3", "4", "5", "6", "7", "8", "9">>
IndexName(i) == <<Digits[i + 1]>>

\* the array object whose elements are xs, and the elements of an array
ArrayOf(xs) ==
  [kind |-> "arr", time |-> 0,
   p |-> [k \in {IndexName(i - 1) : i \in 1..Len(xs)} |->
            xs[CHOOSE i \in 1..Len(xs) : IndexName(i - 1) = k]]]
Elements(h, x) ==
  [i \in 1..Cardinality(DOMAIN h[x.v].p) |-> h[x.v].p[IndexName(i - 1)]]

\* takeLast(arr, n): the resulting heap, the array returned, or what it threw
takeLast(h, arr, n) ==
  IF ~IsArray(h, arr)
  THEN [h |-> h, v |-> Undef, threw |-> TRUE,
        error |-> TypeError("takeLast", "arr must be an array")]
  ELSE IF n < 0
  THEN [h |-> h, v |-> Undef, threw |-> TRUE,
        error |-> TypeError("takeLast", "n must be a non-negative integer")]
  ELSE LET xs == Elements(h, arr)
       IN [h |-> Append(h, ArrayOf(slice(xs, -n, Len(xs)))),
           v |-> Ref(Len(h) + 1), threw |-> FALSE, error |-> NoError]

\* the sequences takeLast is given, of at most n elements
RECURSIVE Lists(_)
Lists(n) ==
  IF n = 0 THEN {<<>>}
  ELSE Lists(n - 1)
         \cup {Append(xs, x) : xs \in {y \in Lists(n - 1) : Len(y) = n - 1},
                               x \in {Num(1), Marker}}

InitTakeLast ==
  \E n \in (-1)..(MaxLen + 1) :
    /\ \/ \E xs \in Lists(MaxLen) :
            /\ heap = <<ArrayOf(xs)>> /\ args = <<Ref(1), Num(n)>>
       \/ /\ heap = <<>> /\ args = <<Str(1), Num(n)>>
    /\ pre = heap /\ post = heap
    /\ op = "init"
    /\ path = NoPath
    /\ ret = Undef
    /\ threw = FALSE
    /\ error = NoError
    /\ side = "none"
    /\ nmut = 0
    /\ calls = <<>>
    /\ stack = <<>>

\* takeLast(arr, n)
CallTakeLast ==
  /\ op = "init"
  /\ LET r == takeLast(heap, args[1], args[2].v)
     IN /\ heap' = r.h
        /\ post' = r.h
        /\ ret' = r.v
        /\ threw' = r.threw
        /\ error' = r.error
  /\ op' = "takeLast"
  /\ UNCHANGED <<pre, args, path, side, nmut, calls, stack>>

\* takeLast(arr): n left out
CallTakeLastDefault ==
  /\ op = "init"
  /\ LET r == takeLast(heap, args[1], 1)
     IN /\ heap' = r.h
        /\ post' = r.h
        /\ ret' = r.v
        /\ threw' = r.threw
        /\ error' = r.error
  /\ args' = <<args[1], Num(1)>>
  /\ op' = "takeLast"
  /\ UNCHANGED <<pre, path, side, nmut, calls, stack>>

NextTakeLast == CallTakeLast \/ CallTakeLastDefault

SpecTakeLast == InitTakeLast /\ [][NextTakeLast]_vars

\* the last k items of xs, for k no more than xs has
Suffix(xs, k) == SubSeq(xs, Len(xs) - k + 1, Len(xs))

\* C22: for every array arr and every non-negative integer n, takeLast(arr, n)
\* is the suffix of arr of length min(n, arr.length), in the original order,
\* and arr is not modified.
C22_TakeLastIsSuffix ==
  (op = "takeLast" /\ IsArray(pre, args[1]) /\ args[2].v >= 0) =>
    LET xs == Elements(pre, args[1])
        k == IF args[2].v < Len(xs) THEN args[2].v ELSE Len(xs)
    IN /\ ~threw
       /\ IsArray(heap, ret) /\ ret # args[1]
       /\ Elements(heap, ret) = Suffix(xs, k)
       /\ heap[args[1].v] = pre[args[1].v]

\* ------------------------------------------------------------------------
\* Further properties of merge (SpecMerge)
\* ------------------------------------------------------------------------
\* C23: when the source's value at a key is no keyed-mapping, or the
\* accumulator's value is none, the merged value at that key is exactly the
\* source's value; so a date in the source replaces a mapping or a date of
\* the accumulator and is that date, with its instant, in the result.
C23_MergeReplacesNonMappings ==
  (op = "merge" /\ ~threw /\ Len(args) >= 2) =>
    LET source == args[Len(args)]
        before == merge(pre, args[1], SubSeq(args, 2, Len(args) - 1))
    IN \A key \in OwnKeys(pre, source) :
         LET sourceValue == pre[source.v].p[key]
             accValue == ReadProp(before.h, before.v.v, key)
         IN (~IsMap(before.h, accValue) \/ ~IsMap(pre, sourceValue)) =>
              /\ ReadProp(heap, ret.v, key) = sourceValue
              /\ Snap(heap, sourceValue) = Snap(pre, sourceValue)

\* the mappings, sequences and dates reachable from the values vs
ReachAll(h, vs) == UNION {Reach(h, vs[i]) : i \in 1..Len(vs)}

\* C25: no mapping or sequence reachable in the result of
\* merge(target, ...sources) is one that is reachable from target or from a
\* source (so that mutating a nested part of the result changes none of
\* them).
C25_MergeFreshlyAllocated ==
  (op = "merge" /\ ~threw) =>
    Reach(heap, ret) \cap ReachAll(pre, args) = {}

\* ------------------------------------------------------------------------
\* Further properties of isEqual (SpecEqual)
\* ------------------------------------------------------------------------
\* C24: for two dates d1 and d2 that are different references,
\* isEqual(d1, d2) is true iff they carry the same instant.
C24_EqualDates ==
  (op = "isEqual" /\ IsDate(heap, args[1]) /\ IsDate(heap, args[2])
     /\ args[1] # args[2]) =>
    ret = Truth(heap[args[1].v].time = heap[args[2].v].time)

\* ------------------------------------------------------------------------
\* Specification of the two forms of a path: the text and the segments the
\* text splits into
\* ------------------------------------------------------------------------
\* a mapping with a key that holds a dot, beside the key a
Dotted ==
  MapT(DottedKey :> LeafT(Marker) @@ KeyA :> MapT(KeyB :> LeafT(Num(1))))

FormObjects == PathObjects \cup {Dotted}
FormValues == {LeafT(Null), MapT(KeyA :> LeafT(Num(1)))}
FormPaths ==
  {TextPath(cs) : cs \in Texts(MaxPathLen)} \cup {ArrayPath(<<DottedKey>>)}

InitForms ==
  \E obj \in FormObjects, value \in FormValues, pth \in FormPaths :
    InitWith(<<obj, value>>, pth)

\* get(obj, path.split('.'), defaultValue), for a text path
CallGetSplit(defaultValue) ==
  /\ op = "init" /\ path.form = "text"
  /\ LET r == get(heap, args[1], ArrayPath(split(path.chars)), defaultValue)
     IN /\ ret' = r.v
        /\ threw' = r.threw
        /\ error' = r.error
  /\ args' = <<args[1], args[2], defaultValue>>
  /\ op' = "get-split"
  /\ UNCHANGED <<heap, pre, post, path, side, nmut, calls, stack>>

\* set(obj, path.split('.'), value), for a text path
CallSetSplit ==
  /\ op = "init" /\ path.form = "text"
  /\ LET r == set(heap, args[1], ArrayPath(split(path.chars)), args[2])
     IN /\ heap' = r.h
        /\ post' = r.h
        /\ ret' = r.v
        /\ threw' = r.threw
        /\ error' = r.error
  /\ op' = "set-split"
  /\ UNCHANGED <<pre, args, path, side, nmut, calls, stack>>

NextForms ==
  \/ CallSet
  \/ CallSetSplit
  \/ \E d \in {Undef, Str(2)} : CallGet(d)
  \/ \E d \in {Undef, Str(2)} : CallGetSplit(d)

SpecForms == InitForms /\ [][NextForms]_vars

HasDottedKey(h, x) == IsMap(h, x) /\ DottedKey \in OwnKeys(h, x)

\* C26: for every object obj, text path s and value V, get(obj, s, d) equals
\* get(obj, s.split('.'), d), and set(obj, s, V) is deep-equal to
\* set(obj, s.split('.'), V) (both throw or neither does); a key that itself
\* holds a dot is never read or written through a text path, only through
\* the segment form.
C26_PathFormsEquivalent ==
  /\ op = "get-split" =>
       LET r == get(pre, args[1], path, args[3])
       IN threw = r.threw /\ error = r.error /\ ret = r.v
  /\ op = "set-split" =>
       LET r == set(pre, args[1], path, args[2])
       IN /\ threw = r.threw /\ error = r.error
          /\ Snap(heap, ret) = Snap(r.h, r.v)
  /\ (op = "get" /\ path.form = "text" /\ HasDottedKey(pre, args[1])) =>
       ret # pre[args[1].v].p[DottedKey]
  /\ (op = "set" /\ path.form = "text" /\ HasDottedKey(pre, args[1])
        /\ ~threw) =>
       ReadProp(heap, ret.v, DottedKey) = pre[args[1].v].p[DottedKey]

\* set was given the segments of the text a.b for a mapping that has the
\* keys a and a.b: it wrote b below a and left the key a.b as it was
C26_Witness ==
  /\ op = "set-split" /\ ~threw
  /\ HasDottedKey(pre, args[1])
  /\ path.chars = DottedKey
  /\ ReadProp(heap, ret.v, DottedKey) = Marker
  /\ Resolve(heap, ret, <<KeyA, KeyB>>) = args[2]
  /\ Snap(heap, ret) # Snap(pre, args[1])

\* ------------------------------------------------------------------------
\* Specification of set followed by a read elsewhere or by a second set
\* ------------------------------------------------------------------------
\* the paths read after set: segments among a, b and 0, one or two of them
FrameReads ==
  {ArrayPath(ss) : ss \in {<<KeyA>>, <<KeyB>>, <<Key0>>, <<KeyA, KeyA>>,
                           <<KeyA, KeyB>>, <<KeyA, Key0>>, <<KeyB, KeyA>>}}

\* the value written by the second set
FrameSeconds == {LeafT(Num(1)), LeafT(Undef)}

InitFrame ==
  \E obj \in PathObjects, v1 \in FormValues, v2 \in FrameSeconds,
     pth \in {TextPath(cs) : cs \in Texts(MaxPathLen)} :
    InitWith(<<obj, v1, v2>>, pth)

\* ks is the beginning of ls
IsPrefix(ks, ls) == Len(ks) <= Len(ls) /\ SubSeq(ls, 1, Len(ks)) = ks

\* neither of the two paths is a prefix of the other
Apart(p, q) ==
  ~IsPrefix(pathKeys(p), pathKeys(q)) /\ ~IsPrefix(pathKeys(q), pathKeys(p))

\* get(result, q) on what set(obj, path, v1) returned, for a path q apart
\* from path; the path written is kept as the last argument
CallGetElsewhere(q) ==
  /\ op = "set" /\ ~threw /\ Apart(path, q)
  /\ LET r == get(heap, ret, q, Undef)
     IN /\ ret' = r.v
        /\ threw' = r.threw
        /\ error' = r.error
  /\ args' = <<args[1], args[2], args[3], ret, path>>
  /\ path' = q
  /\ op' = "get-elsewhere"
  /\ UNCHANGED <<heap, pre, post, side, nmut, calls, stack>>

\* set(result, path, v2) on what set(obj, path, v1) returned
CallSetAgain ==
  /\ op = "set" /\ ~threw
  /\ LET r == set(heap, ret, path, args[3])
     IN /\ heap' = r.h
        /\ post' = r.h
        /\ ret' = r.v
        /\ threw' = r.threw
        /\ error' = r.error
  /\ args' = <<args[1], args[2], args[3], ret>>
  /\ op' = "set-again"
  /\ UNCHANGED <<pre, path, side, nmut, calls, stack>>

NextFrame ==
  \/ CallSet
  \/ \E q \in FrameReads : CallGetElsewhere(q)
  \/ CallSetAgain

SpecFrame == InitFrame /\ [][NextFrame]_vars

\* C27: for every object obj, path P, value V and every path Q such that
\* neither P nor Q is a prefix of the other, get(set(obj, P, V), Q) is
\* deep-equal to get(obj, Q); and set(set(obj, P, V1), P, V2) is deep-equal
\* to set(obj, P, V2).
C27_SetFrame ==
  /\ (op = "set" /\ ValidCall) => ~threw
  /\ op = "get-elsewhere" =>
       LET r == get(pre, args[1], path, Undef)
       IN ~threw /\ Snap(heap, ret) = Snap(pre, r.v)
  /\ op = "set-again" =>
       LET r == set(pre, args[1], path, args[3])
       IN ~threw /\ ~r.threw /\ Snap(heap, ret) = Snap(r.h, r.v)

\* ------------------------------------------------------------------------
\* diffInDays, diffInHours, diffInMinutes (date.ts)
\* ------------------------------------------------------------------------
\* A date argument: a Date with its instant in milliseconds, a Date that is
\* invalid (its time is NaN), or a value that is no Date.
DateAt(ms) == [kind |-> "date", valid |-> TRUE, time |-> ms]
InvalidDate == [kind |-> "date", valid |-> FALSE, time |-> 0]
NotDate == [kind |-> "string", valid |-> FALSE, time |-> 0]

\* `!(date instanceof Date) || isNaN(date.getTime())`
dateIsInvalid(date) == date.kind # "date" \/ ~date.valid

msPerMinute == 1000 * 60
msPerHour == 1000 * 60 * 60
msPerDay == 1000 * 60 * 60 * 24

\* Date.UTC(getUTCFullYear(), getUTCMonth(), getUTCDate()): the instant at
\* which the UTC day of the instant ms began
utcMidnight(ms) == (ms \div msPerDay) * msPerDay

\* the error of the two guards of fn
diffError(fn, date1, date2) ==
  IF dateIsInvalid(date1) THEN TypeError(fn, "date1 must be a valid Date")
  ELSE IF dateIsInvalid(date2) THEN TypeError(fn, "date2 must be a valid Date")
  ELSE NoError

\* Math.floor((utc1 - utc2) / msPerDay)
diffInDays(date1, date2) ==
  IF dateIsInvalid(date1) \/ dateIsInvalid(date2)
  THEN [v |-> 0, threw |-> TRUE, error |-> diffError("diffInDays", date1, date2)]
  ELSE [v |-> (utcMidnight(date1.time) - utcMidnight(date2.time)) \div msPerDay,
        threw |-> FALSE, error |-> NoError]

\* Math.floor((date1.getTime() - date2.getTime()) / msPerHour)
diffInHours(date1, date2) ==
  IF dateIsInvalid(date1) \/ dateIsInvalid(date2)
  THEN [v |-> 0, threw |-> TRUE, error |-> diffError("diffInHours", date1, date2)]
  ELSE [v |-> (date1.time - date2.time) \div msPerHour,
        threw |-> FALSE, error |-> NoError]

\* Math.floor((date1.getTime() - date2.getTime()) / msPerMinute)
diffInMinutes(date1, date2) ==
  IF dateIsInvalid(date1) \/ dateIsInvalid(date2)
  THEN [v |-> 0, threw |-> TRUE, error |-> diffError("diffInMinutes", date1, date2)]
  ELSE [v |-> (date1.time - date2.time) \div msPerMinute,
        threw |-> FALSE, error |-> NoError]

\* how many half hours and half minutes before and after the epoch the
\* instants lie
MaxHalves == 3

\* instants on and one millisecond off the half minutes, the half hours and
\* the days around the epoch
Instants ==
  {k * u + j : k \in (-MaxHalves)..MaxHalves,
               u \in {msPerMinute \div 2, msPerHour \div 2},
               j \in {-1, 0, 1}}
    \cup {d * msPerDay + j : d \in {-1, 1}, j \in {-1, 0, 1}}

DateInputs == {DateAt(ms) : ms \in Instants} \cup {InvalidDate, NotDate}

InitDiff ==
  \E date1 \in DateInputs, date2 \in DateInputs : InitPlain(<<date1, date2>>)

\* the call fn(date1, date2) returned or threw r
Diffed(fn, r) ==
  /\ op = "init"
  /\ ret' = r.v
  /\ threw' = r.threw
  /\ error' = r.error
  /\ op' = fn
  /\ UNCHANGED <<heap, pre, post, args, path, side, nmut, calls, stack>>

CallDiffInDays == Diffed("diffInDays", diffInDays(args[1], args[2]))
CallDiffInHours == Diffed("diffInHours", diffInHours(args[1], args[2]))
CallDiffInMinutes == Diffed("diffInMinutes", diffInMinutes(args[1], args[2]))

NextDiff == CallDiffInDays \/ CallDiffInHours \/ CallDiffInMinutes

SpecDiff == InitDiff /\ [][NextDiff]_vars

\* C29: for all valid dates a and b, whatever their instants,
\* diffInHours(a, b) = -diffInHours(b, a) and
\* diffInMinutes(a, b) = -diffInMinutes(b, a), as
\* diffInDays(a, b) = -diffInDays(b, a).
C29_DiffAntisymmetric ==
  (~threw /\ op # "init") =>
    /\ op = "diffInDays" => ret = -diffInDays(args[2], args[1]).v
    /\ op = "diffInHours" => ret = -diffInHours(args[2], args[1]).v
    /\ op = "diffInMinutes" => ret = -diffInMinutes(args[2], args[1]).v

\* ------------------------------------------------------------------------
\* addMonths (date.ts)
\* ------------------------------------------------------------------------
\* A Date is an object of the heap; here its time counts the days of the
\* local calendar since 1 January 1970 (the time of day, which setMonth
\* keeps, is left out).  The time of an invalid Date is NaN.
InvalidTime == -1

IsLeapYear(y) == (y % 4 = 0 /\ y % 100 # 0) \/ y % 400 = 0

DaysInMonth(y, m) ==
  IF m = 1 THEN (IF IsLeapYear(y) THEN 29 ELSE 28)
  ELSE IF m \in {3, 5, 8, 10} THEN 30 ELSE 31

\* the day on which the year y begins
DayFromYear(y) ==
  365 * (y - 1970) + ((y - 1969) \div 4) - ((y - 1901) \div 100)
    + ((y - 1601) \div 400)

\* the days of the year y before its month m (0..11)
RECURSIVE DaysBeforeMonth(_, _)
DaysBeforeMonth(y, m) ==
  IF m = 0 THEN 0 ELSE DaysBeforeMonth(y, m - 1) + DaysInMonth(y, m - 1)

\* MakeDay(year, month, date): month and date may lie outside the calendar;
\* months carry into the year, days into the following months
MakeDay(y, m, d) ==
  LET ym == y + (m \div 12)
      mn == m % 12
  IN DayFromYear(ym) + DaysBeforeMonth(ym, mn) + d - 1

\* the years the dates of the model lie in
Years == 2015..2035

getFullYear(t) ==
  CHOOSE y \in Years : DayFromYear(y) <= t /\ t < DayFromYear(y + 1)
getMonth(t) ==
  LET y == getFullYear(t)
  IN CHOOSE m \in 0..11 :
       /\ DayFromYear(y) + DaysBeforeMonth(y, m) <= t
       /\ t < DayFromYear(y) + DaysBeforeMonth(y, m) + DaysInMonth(y, m)
getDate(t) ==
  t - DayFromYear(getFullYear(t)) - DaysBeforeMonth(getFullYear(t), getMonth(t)) + 1

\* result.setMonth(month): the time of result afterwards
setMonth(t, month) == MakeDay(getFullYear(t), month, getDate(t))

\* addMonths(date, months): the resulting heap, the Date returned, or what
\* it threw
addMonths(h, date, months) ==
  IF ~IsDate(h, date) \/ h[date.v].time = InvalidTime
  THEN [h |-> h, v |-> Undef, threw |-> TRUE,
        error |-> TypeError("addMonths", "date must be a valid Date")]
  ELSE IF months.t # "num"
  THEN [h |-> h, v |-> Undef, threw |-> TRUE,
        error |-> TypeError("addMonths", "months must be a finite number")]
  ELSE LET t == h[date.v].time
       IN [h |-> Append(h, NewDate(setMonth(t, getMonth(t) + months.v))),
           v |-> Ref(Len(h) + 1), threw |-> FALSE, error |-> NoError]

\* how many months are added or taken away at most
MaxMonths == 13

\* the dates addMonths is given: the first, the middle and the last days of
\* every month of a common year and of a leap year
CalendarDays ==
  {MakeDay(y, m, d) : y \in {2023, 2024}, m \in 0..11,
                      d \in {1, 15, 28, 29, 30, 31}}
    \cap {t \in DayFromYear(2023)..(DayFromYear(2025) - 1) : TRUE}

InitAddMonths ==
  \E n \in (-MaxMonths)..MaxMonths :
    /\ \/ \E t \in CalendarDays :
            /\ heap = <<NewDate(t)>>
            /\ args \in {<<Ref(1), Num(n)>>, <<Ref(1), NaN>>}
       \/ /\ heap = <<NewDate(InvalidTime)>> /\ args = <<Ref(1), Num(n)>>
       \/ /\ heap = <<>> /\ args = <<Str(1), Num(n)>>
    /\ pre = heap /\ post = heap
    /\ op = "init"
    /\ path = NoPath
    /\ ret = Undef
    /\ threw = FALSE
    /\ error = NoError
    /\ side = "none"
    /\ nmut = 0
    /\ calls = <<>>
    /\ stack = <<>>

\* const result = addMonths(date, months)
CallAddMonths ==
  /\ op = "init"
  /\ LET r == addMonths(heap, args[1], args[2])
     IN /\ heap' = r.h
        /\ post' = r.h
        /\ ret' = r.v
        /\ threw' = r.threw
        /\ error' = r.error
  /\ op' = "addMonths"
  /\ UNCHANGED <<pre, args, path, side, nmut, calls, stack>>

\* addMonths(result, -months) on what addMonths(date, months) returned
CallAddMonthsBack ==
  /\ op = "addMonths" /\ ~threw
  /\ LET r == addMonths(heap, ret, Num(-args[2].v))
     IN /\ heap' = r.h
        /\ post' = r.h
        /\ ret' = r.v
        /\ threw' = r.threw
        /\ error' = r.error
  /\ args' = <<args[1], args[2], ret>>
  /\ op' = "addMonths-back"
  /\ UNCHANGED <<pre, path, side, nmut, calls, stack>>

NextAddMonths == CallAddMonths \/ CallAddMonthsBack

SpecAddMonths == InitAddMonths /\ [][NextAddMonths]_vars

ValidDate(h, x) == IsDate(h, x) /\ h[x.v].time # InvalidTime

\* C30: for every valid date d (any day of the month) and integer n,
\* addMonths(d, n) returns a new date whose month is exactly n months after
\* the month of d (month (m + n) mod 12, the year adjusted), d is not
\* modified, and addMonths(addMonths(d, n), -n) is in the month of d.
C30_AddMonthsLands ==
  (op \in {"addMonths", "addMonths-back"} /\ ValidDate(pre, args[1])
     /\ args[2].t = "num") =>
    LET t == pre[args[1].v].time
        m == getMonth(t) + (IF op = "addMonths" THEN args[2].v ELSE 0)
    IN /\ ~threw
       /\ IsDate(heap, ret) /\ ret # args[1]
       /\ heap[args[1].v] = pre[args[1].v]
       /\ getMonth(heap[ret.v].time) = m % 12
       /\ getFullYear(heap[ret.v].time) = getFullYear(t) + (m \div 12)

\* ------------------------------------------------------------------------
\* Specification of the calls step by step.  A call of clone, isEqual or
\* merge that calls itself is on the stack until it returns; each frame
\* holds the arguments of the call, the result it has built so far and the
\* keys its loop has still to visit.
\* ------------------------------------------------------------------------
\* how many frames the stack of the model holds at most (the engine's limit
\* on the depth of calls)
MaxStack == 6

Frame(fn, a, b, srcs, res, todo) ==
  [fn |-> fn, a |-> a, b |-> b, srcs |-> srcs, res |-> res, todo |-> todo]

\* the step of set that has still to call clone(obj)
CloneStep == <<"clone(obj)">>

\* the frame of clone(obj) before its loop: primitives and dates return at
\* once, a sequence and a mapping have their keys to visit
cloneFrame(h, obj) ==
  IF obj.t # "ref"
  THEN [h |-> h, f |-> Frame("clone", obj, Undef, <<>>, obj, <<>>)]
  ELSE LET o == h[obj.v]
           new == Ref(Len(h) + 1)
       IN CASE o.kind = "date" ->
                 [h |-> Append(h, NewDate(o.time)),
                  f |-> Frame("clone", obj, Undef, <<>>, new, <<>>)]
            [] o.kind = "arr" ->
                 [h |-> Append(h, NewArray),
                  f |-> Frame("clone", obj, Undef, <<>>, new,
                              KeySeq(DOMAIN o.p \cap IndexKeys))]
            [] o.kind = "map" ->
                 [h |-> Append(h, NewObject),
                  f |-> Frame("clone", obj, Undef, <<>>, new,
                              KeySeq(DOMAIN o.p))]

\* the frame of isEqual(obj1, obj2) before its loop: the four tests that
\* return at once, or the keys of obj1 to visit
isEqualFrame(h, obj1, obj2) ==
  LET decided(b) == Frame("isEqual", obj1, obj2, <<>>, Truth(b), <<>>)
  IN [h |-> h,
      f |-> IF StrictEq(obj1, obj2) THEN decided(TRUE)
            ELSE IF TypeOf(obj1) # "object" \/ TypeOf(obj2) # "object"
                    \/ obj1 = Null \/ obj2 = Null THEN decided(FALSE)
            ELSE IF IsArray(h, obj1) # IsArray(h, obj2) THEN decided(FALSE)
            ELSE IF Cardinality(OwnKeys(h, obj1)) # Cardinality(OwnKeys(h, obj2))
            THEN decided(FALSE)
            ELSE Frame("isEqual", obj1, obj2, <<>>, Truth(TRUE),
                       KeySeq(OwnKeys(h, obj1)))]

\* the frame of merge(target, ...sources) after the guards: result is the
\* copy of target, the keys of the first source are to visit
mergeFrame(h, target, sources) ==
  [h |-> Append(h, [kind |-> "map", time |-> 0, p |-> h[target.v].p]),
   f |-> Frame("merge", target, Undef, sources, Ref(Len(h) + 1),
               IF sources = <<>> THEN <<>>
               ELSE KeySeq(OwnKeys(h, Head(sources))))]

Top == stack[Len(stack)]
Recursive == {"clone", "isEqual", "merge"}

\* the call the innermost frame makes for the key its loop stands at, if it
\* makes one
MakesCall(h, f) ==
  LET key == Head(f.todo)
  IN CASE f.fn = "clone" -> TRUE
       [] f.fn = "isEqual" -> key \in OwnKeys(h, f.b)
       [] f.fn = "merge" ->
            /\ isMergeable(h, h[Head(f.srcs).v].p[key])
            /\ isMergeable(h, ReadProp(h, f.res.v, key))
       [] f.fn = "set" -> key = CloneStep
       [] OTHER -> FALSE

\* a recursion that does not descend: the call is made on the caller's own
\* arguments, not on the values under the key
CalleeOfSelf(h, f) ==
  CASE f.fn = "clone" -> cloneFrame(h, f.a)
    [] f.fn = "isEqual" -> isEqualFrame(h, f.a, f.b)
    [] f.fn = "merge" -> mergeFrame(h, f.a, f.srcs)
    [] f.fn = "set" -> cloneFrame(h, f.a)

Callee(h, f) ==
  LET key == Head(f.todo)
  IN CASE f.fn = "clone" -> cloneFrame(h, h[f.a.v].p[key])
       [] f.fn = "isEqual" ->
            isEqualFrame(h, h[f.a.v].p[key], h[f.b.v].p[key])
       [] f.fn = "merge" ->
            mergeFrame(h, ReadProp(h, f.res.v, key),
                       <<h[Head(f.srcs).v].p[key]>>)
       [] f.fn = "set" -> cloneFrame(h, f.a)

\* a call begins: the stack holds its frame
Begin(fn, r) ==
  /\ op = "init"
  /\ heap' = r.h
  /\ stack' = <<r.f>>
  /\ op' = fn
  /\ UNCHANGED <<pre, post, args, path, ret, threw, error, side, nmut, calls>>

\* a call ends in its guards: it throws before it does anything
Thrown(fn, e) ==
  /\ op = "init"
  /\ threw' = TRUE
  /\ error' = e
  /\ op' = fn
  /\ UNCHANGED <<heap, pre, post, args, path, ret, side, nmut, calls, stack>>

EnterClone == Begin("clone", cloneFrame(heap, args[1]))

EnterIsEqual == Begin("isEqual", isEqualFrame(heap, args[1], args[2]))

EnterMerge ==
  IF mergeIsInvalid(args[1], <<args[2]>>)
  THEN Thrown("merge", mergeError(args[1], <<args[2]>>))
  ELSE Begin("merge", mergeFrame(heap, args[1], <<args[2]>>))

\* get(obj, path, defaultValue) with args[2] for the default: result starts
\* at obj, the loop has the keys of the path to visit
EnterGet ==
  IF objIsInvalid(args[1]) \/ pathIsInvalid(path)
  THEN Thrown("get", guardError("get", args[1], path))
  ELSE Begin("get", [h |-> heap,
                     f |-> Frame("get", args[1], args[2], <<>>, args[1],
                                 pathKeys(path))])

\* set(obj, path, value) with args[2] for the value: clone(obj) is to call
EnterSet ==
  IF objIsInvalid(args[1]) \/ pathIsInvalid(path)
  THEN Thrown("set", guardError("set", args[1], path))
  ELSE Begin("set", [h |-> heap,
                     f |-> Frame("set", args[1], args[2], <<>>, Undef,
                                 <<CloneStep>>)])

\* the innermost call makes the call of its loop body: a frame is pushed
Descend ==
  /\ stack # <<>> /\ Top.todo # <<>>
  /\ MakesCall(heap, Top)
  /\ Len(stack) < MaxStack
  /\ LET r == Callee(heap, Top)
     IN /\ heap' = r.h
        /\ stack' = Append(stack, r.f)
  /\ UNCHANGED <<pre, post, op, args, path, ret, threw, error, side, nmut, calls>>

\* the innermost call runs a loop body that calls nothing: isEqual finds a
\* key missing, merge stores the source's value, get reads a property
Iterate ==
  /\ stack # <<>> /\ Top.todo # <<>>
  /\ ~MakesCall(heap, Top)
  /\ LET f == Top
         key == Head(f.todo)
         n == Len(stack)
     IN CASE f.fn = "isEqual" ->
               /\ stack' = [stack EXCEPT ![n].res = Truth(FALSE), ![n].todo = <<>>]
               /\ heap' = heap
          [] f.fn = "merge" ->
               /\ heap' = WriteProp(heap, f.res.v, key, heap[Head(f.srcs).v].p[key])
               /\ stack' = [stack EXCEPT ![n].todo = Tail(@)]
          [] f.fn = "get" ->
               /\ stack' = IF f.res = Null \/ f.res = Undef
                           THEN [stack EXCEPT ![n].res = f.b, ![n].todo = <<>>]
                           ELSE [stack EXCEPT ![n].res = Member(heap, f.res, key),
                                              ![n].todo = Tail(@)]
               /\ heap' = heap
  /\ UNCHANGED <<pre, post, op, args, path, ret, threw, error, side, nmut, calls>>

\* merge has visited the keys of a source and goes on to the next one
NextSource ==
  /\ stack # <<>> /\ Top.fn = "merge"
  /\ Top.todo = <<>> /\ Top.srcs # <<>>
  /\ LET rest == Tail(Top.srcs)
     IN stack' = [stack EXCEPT ![Len(stack)].srcs = rest,
                               ![Len(stack)].todo =
                                 IF rest = <<>> THEN <<>>
                                 ELSE KeySeq(OwnKeys(heap, Head(rest)))]
  /\ UNCHANGED <<heap, pre, post, op, args, path, ret, threw, error, side, nmut, calls>>

Finished(f) == f.todo = <<>> /\ f.srcs = <<>>

\* the innermost call returns to the call that made it
ReturnToFrame ==
  /\ Len(stack) >= 2 /\ Finished(Top)
  /\ LET n == Len(stack) - 1
         f == stack[n]
         key == Head(f.todo)
         below == SubSeq(stack, 1, n)
     IN CASE f.fn = "clone" ->
               /\ heap' = WriteProp(heap, f.res.v, key, Top.res)
               /\ stack' = [below EXCEPT ![n].todo = Tail(@)]
               /\ UNCHANGED <<threw, error>>
          [] f.fn = "isEqual" ->
               /\ stack' = IF Top.res = Truth(FALSE)
                           THEN [below EXCEPT ![n].res = Truth(FALSE), ![n].todo = <<>>]
                           ELSE [below EXCEPT ![n].todo = Tail(@)]
               /\ UNCHANGED <<heap, threw, error>>
          [] f.fn = "merge" ->
               /\ heap' = WriteProp(heap, f.res.v, key, Top.res)
               /\ stack' = [below EXCEPT ![n].todo = Tail(@)]
               /\ UNCHANGED <<threw, error>>
          [] f.fn = "set" ->
               \* the loop of set and its last assignment, on the clone
               LET w == setWalk(heap, Top.res, pathKeys(path), f.b)
               IN /\ heap' = w.h
                  /\ threw' = w.threw
                  /\ error' = IF w.threw THEN NullAccess ELSE NoError
                  /\ stack' = IF w.threw THEN <<>>
                              ELSE [below EXCEPT ![n].res = Top.res, ![n].todo = <<>>]
  /\ UNCHANGED <<pre, post, op, args, path, ret, side, nmut, calls>>

\* the outermost call returns to the caller
ReturnToCaller ==
  /\ Len(stack) = 1 /\ Finished(Top)
  /\ ret' = IF Top.fn = "get" /\ Top.res = Undef THEN Top.b ELSE Top.res
  /\ post' = heap
  /\ stack' = <<>>
  /\ UNCHANGED <<heap, pre, op, args, path, threw, error, side, nmut, calls>>

NextSteps ==
  \/ EnterClone \/ EnterIsEqual \/ EnterMerge \/ EnterGet \/ EnterSet
  \/ Descend \/ Iterate \/ NextSource
  \/ ReturnToFrame \/ ReturnToCaller

\* the values the calls are given: primitives, mappings nested up to three
\* deep, a sequence of a mapping, a date
StepInputs ==
  {LeafT(Null), LeafT(Num(1)), MapT(EmptyProps),
   MapT(KeyA :> LeafT(Num(1))),
   MapT(KeyA :> LeafT(Null) @@ KeyB :> LeafT(Marker)),
   MapT(KeyA :> MapT(KeyB :> LeafT(Num(1))) @@ KeyB :> LeafT(Marker)),
   MapT(KeyA :> MapT(KeyA :> MapT(KeyA :> LeafT(Num(1))))),
   MapT(KeyA :> MapT(KeyA :> MapT(KeyB :> LeafT(Marker)))),
   ArrT(Key0 :> MapT(KeyA :> LeafT(Num(1))))}
    \cup Dates

StepPaths == {TextPath(<<"a", ".", "b">>), TextPath(<<"b">>), OtherPath}

\* two mappings that each hold themselves under the key a
CyclicHeap ==
  <<[kind |-> "map", time |-> 0, p |-> KeyA :> Ref(1)],
    [kind |-> "map", time |-> 0, p |-> KeyA :> Ref(2)]>>

InitSteps ==
  \/ \E x \in StepInputs, y \in StepInputs, pth \in StepPaths :
       InitWith(<<x, y>>, pth)
  \/ \E pth \in StepPaths :
       /\ heap = CyclicHeap /\ pre = CyclicHeap /\ post = CyclicHeap
       /\ op = "init"
       /\ args = <<Ref(1), Ref(2)>>
       /\ path = pth
       /\ ret = Undef
       /\ threw = FALSE
       /\ error = NoError
       /\ side = "none"
       /\ nmut = 0
       /\ calls = <<>>
       /\ stack = <<>>

\* A call that has begun runs on until it returns: the functions are
\* synchronous and nothing else runs meanwhile.
SpecSteps == InitSteps /\ [][NextSteps]_vars /\ WF_vars(NextSteps)

\* the objects an object holds, and the objects reached from the set S in
\* at most n steps
Children(h, a) == {h[a].p[k].v : k \in {j \in DOMAIN h[a].p : h[a].p[j].t = "ref"}}
RECURSIVE Within(_, _, _)
Within(h, S, n) ==
  IF n = 0 THEN S
  ELSE Within(h, S \cup UNION {Children(h, a) : a \in S}, n - 1)

\* some object of the heap is reached from itself
IsCyclic(h) ==
  \E a \in 1..Len(h) : a \in Within(h, Children(h, a), Len(h))

\* how deep the mappings and sequences of an acyclic value are nested
RECURSIVE NestingDepth(_, _)
NestingDepth(h, x) ==
  IF x.t # "ref" THEN 0
  ELSE LET below == {NestingDepth(h, h[x.v].p[k]) : k \in DOMAIN h[x.v].p}
       IN 1 + (IF below = {} THEN 0 ELSE CHOOSE d \in below : \A e \in below : e <= d)

\* how many calls of clone, isEqual and merge on the stack were made by
\* such a call
RecursionDepth ==
  LET n == Cardinality({i \in 1..Len(stack) : stack[i].fn \in Recursive})
  IN IF n = 0 THEN 0 ELSE n - 1

InputDepth ==
  LET d1 == NestingDepth(pre, args[1])
      d2 == NestingDepth(pre, args[2])
  IN IF d1 < d2 THEN d2 ELSE d1

Returned == op # "init" /\ stack = <<>>

\* C28: isEqual, clone, merge, get and set terminate for every acyclic
\* input, and the depth of their recursion never exceeds the nesting depth
\* of the input; the recursion grows without bound only in isEqual, clone or
\* merge and only on a cyclic structure.
C28_Terminates ==
  /\ [](~IsCyclic(pre) => RecursionDepth <= InputDepth)
  /\ [](Len(stack) = MaxStack => (IsCyclic(pre) /\ Top.fn \in Recursive))
  /\ (~IsCyclic(pre)) => <>Returned

\* clone stands three calls deep in a mapping nested three deep
C28_Witness ==
  /\ ~IsCyclic(pre)
  /\ op = "clone"
  /\ RecursionDepth = 3 /\ InputDepth = 3
  /\ Top.fn = "clone" /\ Top.a.t = "num"

====
